---- MODULE Spec2Model ----
(***************************************************************************)
(* Project / plan handlers of lovia-backend (controllers/projects):        *)
(* createProject, createProjectPlan, getProject and updateProject over the *)
(* Users, Categories, Projects and ProjectPlans repositories.              *)
(***************************************************************************)
EXTENDS Integers, Sequences, FiniteSets, TLC

VARIABLES projects, plans, nextPlanId, writes, req, res, inflight

vars == <<projects, plans, nextPlanId, writes, req, res, inflight>>

store == <<projects, plans, nextPlanId>>

-----------------------------------------------------------------------------
(* Bounds *)

MaxProjects == 2

MaxPlanRows == 4

MaxWrites == 3

-----------------------------------------------------------------------------
(* JavaScript values carried by request bodies and entity columns *)

Undef == [t |-> "undefined", n |-> 0, s |-> ""]

Null == [t |-> "null", n |-> 0, s |-> ""]

NaN == [t |-> "NaN", n |-> 0, s |-> ""]

EmptyArr == [t |-> "array", n |-> 0, s |-> ""]

Num(n) == [t |-> "number", n |-> n, s |-> ""]

Str(s) == [t |-> "string", n |-> 0, s |-> s]

\* !v is false
Truthy(v) ==
  CASE v.t = "number" -> v.n # 0
    [] v.t = "string" -> v.s # ""
    [] v.t = "array" -> TRUE
    [] OTHER -> FALSE

\* Number("...") for the string literals the requests of this model carry
StringToNumber(s) ==
  CASE s = "" -> Num(0)
    [] s = "0" -> Num(0)
    [] s = "3" -> Num(3)
    [] s = "7" -> Num(7)
    [] OTHER -> NaN

\* Number(v)
Number(v) ==
  CASE v.t = "number" -> v
    [] v.t = "string" -> StringToNumber(v.s)
    [] v.t = "null" -> Num(0)
    [] v.t = "array" -> Num(0)
    [] OTHER -> NaN

Digit(c) ==
  CASE c = "0" -> 0 [] c = "1" -> 1 [] c = "2" -> 2 [] c = "3" -> 3
    [] c = "4" -> 4 [] c = "5" -> 5 [] c = "6" -> 6 [] c = "7" -> 7
    [] c = "8" -> 8 [] c = "9" -> 9 [] OTHER -> -1

RECURSIVE LeadingDigits(_, _)
LeadingDigits(chars, acc) ==
  IF chars = <<>> \/ Digit(Head(chars)) < 0 THEN acc
  ELSE LeadingDigits(Tail(chars), 10 * acc + Digit(Head(chars)))

\* parseInt(param, 10); -1 stands for NaN (no leading digit)
ParseInt(chars) ==
  IF chars = <<>> \/ Digit(Head(chars)) < 0 THEN -1
  ELSE LeadingDigits(chars, 0)

-----------------------------------------------------------------------------
(* Repositories' contents that the handlers never change *)

Users == {"u1", "u2"}

Categories == {1}

requiredFields ==
  << "title", "summary", "category_id", "total_amount", "start_time",
     "end_time", "cover", "full_content", "project_team", "faq" >>

BodyKeys == {requiredFields[i] : i \in 1..Len(requiredFields)}

ScalarFields == BodyKeys \ {"category_id"}

PlanFields ==
  {"plan_name", "amount", "quantity", "feedback", "feedback_img", "delivery_date"}

-----------------------------------------------------------------------------
(* Requests *)

NoToken == [kind |-> "none", id |-> ""]

\* Authorization header values: absent, not a JWT, expired JWT, valid JWT of
\* a registered user, valid JWT whose user row does not exist
Tokens ==
  { NoToken,
    [kind |-> "malformed", id |-> ""],
    [kind |-> "expired", id |-> "u1"],
    [kind |-> "valid", id |-> "u1"],
    [kind |-> "valid", id |-> "u2"],
    [kind |-> "valid", id |-> "u9"] }

\* path parameters: "1", "2x" (parseInt reads 2) and "3"
Params == { <<"1">>, <<"2", "x">>, <<"3">> }

EmptyBody == [k \in BodyKeys |-> Undef]

BaseBody ==
  [k \in BodyKeys |->
     CASE k = "category_id" -> Num(1)
       [] k = "total_amount" -> Num(500)
       [] k = "faq" -> EmptyArr
       [] OTHER -> Str("a")]

CreateBodies ==
  { BaseBody, EmptyBody,
    [BaseBody EXCEPT !["title"] = Undef],
    [BaseBody EXCEPT !["summary"] = Undef, !["faq"] = Undef],
    [BaseBody EXCEPT !["total_amount"] = Num(0)],
    [BaseBody EXCEPT !["cover"] = Str("")],
    [BaseBody EXCEPT !["category_id"] = Num(9)] }

PlanInput(name, amount, quantity) ==
  [nul |-> FALSE,
   v |-> [k \in PlanFields |->
            CASE k = "plan_name" -> Str(name)
              [] k = "amount" -> amount
              [] k = "quantity" -> quantity
              [] OTHER -> Str("a")]]

pA == PlanInput("A", Num(100), Str("3"))

pB == PlanInput("B", Str("7"), Undef)

pC == PlanInput("C", Str("x"), Num(0))

\* a null element of a plans array
pNull == [nul |-> TRUE, v |-> [k \in PlanFields |-> Undef]]

NoPlans == [kind |-> "undefined", items |-> <<>>]

PlanObject(p) == [kind |-> "object", items |-> <<p>>]

PlanArray(ps) == [kind |-> "array", items |-> ps]

\* req.body.plans of POST /:id/plans
CreatePlanBodies == { NoPlans, PlanObject(pB) }

\* req.body of PATCH /:project_id: the scalar keys and req.body.plans
UpdateBodies ==
  { <<[EmptyBody EXCEPT !["title"] = Str("b"), !["total_amount"] = Str("7")],
      NoPlans>>,
    <<[EmptyBody EXCEPT !["faq"] = Null, !["category_id"] = Num(9)], NoPlans>>,
    <<EmptyBody, [kind |-> "string", items |-> <<>>]>>,
    <<EmptyBody, PlanArray(<<>>)>>,
    <<EmptyBody, PlanArray(<<pC, pA>>)>>,
    <<EmptyBody, PlanArray(<<pA, pNull>>)>>,
    <<[EmptyBody EXCEPT !["summary"] = Str("b")], PlanArray(<<pB, pB>>)>> }

NoReq ==
  [op |-> "none", token |-> NoToken, param |-> <<>>, body |-> EmptyBody,
   plans |-> NoPlans]

Request(op, token, param, body, plansBody) ==
  [op |-> op, token |-> token, param |-> param, body |-> body,
   plans |-> plansBody]

-----------------------------------------------------------------------------
(* Responses *)

NoData == [k \in ScalarFields |-> Undef]

NoRes ==
  [status |-> 0, message |-> "", missing |-> <<>>, project_id |-> 0,
   category |-> 0, data |-> NoData, plans |-> <<>>]

\* res.status(code).json({status, message})
Json(code, message) == [NoRes EXCEPT !.status = code, !.message = message]

\* err.status of appError(status, message); an error thrown by the
\* persistence layer or the runtime has none
AppError(status, message) == [status |-> status, message |-> message]

Thrown(message) == [status |-> 0, message |-> message]

\* app.js error middleware
ErrorHandler(err) ==
  Json(IF err.status # 0 THEN err.status ELSE 500, err.message)

-----------------------------------------------------------------------------
(* Persistence layer: Projects rows are numbered 1, 2, ... in insertion      *)
(* order; ProjectPlans rows carry a generated ascending plan_id.             *)

ProjectExists(rows, id) == id \in 1..Len(rows)

PlansOf(rows, projectId) == {r \in rows : r.project = projectId}

\* DeletePlans with a criterion that matches no row
DeletePlansNoMatch(rows, projectId) == rows

\* planRepo.delete({project: {id}})
DeletePlans(rows, projectId) == rows \ PlansOf(rows, projectId)

\* planRepo.save(entity or entities): one row per entity, ids in order
InsertPlans(rows, firstId, projectId, entities) ==
  rows \cup { [plan_id |-> firstId + i - 1, project |-> projectId,
               v |-> entities[i]] : i \in 1..Len(entities) }

\* projectRepo.save(new entity)
InsertProject(rows, user, category, body) ==
  Append(rows, [user |-> user, category |-> category,
                cols |-> [k \in ScalarFields |-> body[k]]])

\* categoryRepo.findOneBy({id: category_id}); 0 when there is no such row
FindCategory(category_id) ==
  IF category_id.t = "number" /\ category_id.n \in Categories
  THEN category_id.n ELSE 0

-----------------------------------------------------------------------------
(* Handlers.  A handler runs when no response is outstanding; Reply sends   *)
(* the response and drops the request context.                              *)

Idle == req = NoReq /\ inflight = <<>>

Serve(request) ==
  /\ Idle
  /\ req' = request
  /\ UNCHANGED inflight

\* a request that commits a change to the store
Commit ==
  /\ writes < MaxWrites
  /\ writes' = writes + 1

\* a request that leaves the store as it was
NoWrite == UNCHANGED <<projects, plans, nextPlanId, writes>>

checkMissingProjectFields(body) ==
  SelectSeq(requiredFields, LAMBDA field : ~Truthy(body[field]))

\* jwt.verify(token, secret) does not throw
JwtVerifies(token) == token.kind = "valid"

createProject(token, body) ==
  LET missingFields == checkMissingProjectFields(body)
      existingCategory == FindCategory(body["category_id"])
  IN
  /\ Serve(Request("createProject", token, <<>>, body, NoPlans))
  /\ IF Len(missingFields) > 0
     THEN /\ res' = [Json(400, "missing required fields")
                       EXCEPT !.missing = missingFields]
          /\ NoWrite
     ELSE IF token.kind = "none"
     THEN /\ res' = Json(401, "no valid token provided")
          /\ NoWrite
     ELSE IF ~JwtVerifies(token)
     THEN /\ res' = Json(401, "invalid token")
          /\ NoWrite
     ELSE IF token.id \notin Users
     THEN /\ res' = ErrorHandler(AppError(400, "user not found"))
          /\ NoWrite
     ELSE IF existingCategory = 0
     THEN /\ res' = ErrorHandler(AppError(400, "invalid category"))
          /\ NoWrite
     ELSE \E saveFails \in BOOLEAN :
            IF saveFails
            THEN /\ res' = ErrorHandler(AppError(400, "db error"))
                 /\ NoWrite
            ELSE /\ Commit
                 /\ Len(projects) < MaxProjects
                 /\ projects' =
                      InsertProject(projects, token.id, existingCategory, body)
                 /\ res' = [Json(200, "project created")
                              EXCEPT !.project_id = Len(projects) + 1]
                 /\ UNCHANGED <<plans, nextPlanId>>

\* const {plan_name, ...} = req.body.plans throws on undefined
PlanDestructureThrows(plansBody) == plansBody.kind = "undefined"

PlanFromBody(plansBody) ==
  IF plansBody.kind = "object" THEN plansBody.items[1].v
  ELSE [k \in PlanFields |-> Undef]

createProjectPlan(token, param, plansBody) ==
  LET projectId == ParseInt(param)
      newPlan == PlanFromBody(plansBody)
  IN
  /\ Serve(Request("createProjectPlan", token, param, EmptyBody, plansBody))
  /\ IF PlanDestructureThrows(plansBody)
     THEN /\ res' = ErrorHandler(AppError(500, "TypeError"))
          /\ NoWrite
     ELSE IF ~ProjectExists(projects, projectId)
     THEN /\ res' = Json(404, "project not found")
          /\ NoWrite
     ELSE \E saveFails \in BOOLEAN :
            IF saveFails
            THEN /\ res' = ErrorHandler(AppError(500, "db error"))
                 /\ NoWrite
            ELSE /\ Commit
                 /\ nextPlanId <= MaxPlanRows
                 /\ plans' = InsertPlans(plans, nextPlanId, projectId, <<newPlan>>)
                 /\ nextPlanId' = nextPlanId + 1
                 /\ res' = [Json(201, "plan created")
                              EXCEPT !.plans = <<newPlan>>]
                 /\ UNCHANGED projects

\* every order in which the rows of a relation can be loaded
Orderings(rows) ==
  {f \in [1..Cardinality(rows) -> rows] :
     \A i, j \in 1..Cardinality(rows) : i # j => f[i] # f[j]}

\* SortInsert with the comparator reversed, (a, b) => b.plan_id - a.plan_id
RECURSIVE SortInsertReversed(_, _)
SortInsertReversed(sorted, x) ==
  IF sorted = <<>> THEN <<x>>
  ELSE IF Head(sorted).plan_id - x.plan_id < 0 THEN <<x>> \o sorted
  ELSE <<Head(sorted)>> \o SortInsertReversed(Tail(sorted), x)

\* one insertion of Array.prototype.sort with (a, b) => a.plan_id - b.plan_id
RECURSIVE SortInsert(_, _)
SortInsert(sorted, x) ==
  IF sorted = <<>> THEN <<x>>
  ELSE IF x.plan_id - Head(sorted).plan_id < 0 THEN <<x>> \o sorted
  ELSE <<Head(sorted)>> \o SortInsert(Tail(sorted), x)

RECURSIVE SortPlans(_)
SortPlans(rows) ==
  IF rows = <<>> THEN <<>>
  ELSE SortInsert(SortPlans(SubSeq(rows, 1, Len(rows) - 1)), rows[Len(rows)])

getProject(param) ==
  LET projectId == ParseInt(param) IN
  /\ Serve(Request("getProject", NoToken, param, EmptyBody, NoPlans))
  /\ NoWrite
  /\ IF ~ProjectExists(projects, projectId)
     THEN res' = ErrorHandler(AppError(404, "no such project"))
     ELSE \E projectPlans \in Orderings(PlansOf(plans, projectId)) :
            LET project == projects[projectId]
                sortedPlans == SortPlans(projectPlans)
            IN res' =
                 [Json(200, "") EXCEPT
                    !.category = project.category,
                    !.data = [project.cols EXCEPT
                                !["faq"] = IF Truthy(project.cols["faq"])
                                           THEN project.cols["faq"]
                                           ELSE EmptyArr],
                    !.plans = [i \in 1..Len(sortedPlans) |-> sortedPlans[i].v]]

\* middlewares/auth: the user attached to the request, "" when the request
\* is answered 401 before the handler
auth(token) ==
  IF JwtVerifies(token) /\ token.id \in Users THEN token.id ELSE ""

\* projectRepo.findOne({where: {id, user_id}}): 0 when no row matches
FindOwnedProject(rows, projectId, userId) ==
  IF ProjectExists(rows, projectId) /\ rows[projectId].user = userId
  THEN projectId ELSE 0

\* SetFields assigning every key of the destructured body, present or not
SetFieldsUnguarded(project, body) ==
  [project EXCEPT !.cols =
     [k \in ScalarFields |->
        IF k = "total_amount" THEN Number(body[k]) ELSE body[k]]]

\* if (x !== undefined) project.x = x, total_amount through Number()
SetFields(project, body) ==
  [project EXCEPT !.cols =
     [k \in ScalarFields |->
        IF body[k] = Undef THEN project.cols[k]
        ELSE IF k = "total_amount" THEN Number(body[k])
        ELSE body[k]]]

\* NewPlan without the default of the quantity
NewPlanNoDefault(plan) ==
  [k \in PlanFields |->
     CASE k = "amount" -> Number(plan.v["amount"])
       [] k = "quantity" -> Number(plan.v["quantity"])
       [] OTHER -> plan.v[k]]

\* planRepo.create({...}) of one element of req.body.plans
NewPlan(plan) ==
  [k \in PlanFields |->
     CASE k = "amount" -> Number(plan.v["amount"])
       [] k = "quantity" -> IF Truthy(plan.v["quantity"])
                            THEN Number(plan.v["quantity"]) ELSE Num(0)
       [] OTHER -> plan.v[k]]

NewPlans(items) == [i \in 1..Len(items) |-> NewPlan(items[i])]

\* plan.plan_name on a null element throws
MapThrows(items) == \E i \in 1..Len(items) : items[i].nul

\* the persistence call of updateProject that rejects, if any
UpdateFailures == {"none", "delete", "insert", "save"}

updateProject(token, param, body, plansBody) ==
  LET projectId == ParseInt(param)
      user == auth(token)
      found == FindOwnedProject(projects, projectId, user)
      project == SetFields(projects[projectId], body)
      items == plansBody.items
  IN
  /\ Serve(Request("updateProject", token, param, body, plansBody))
  /\ IF user = ""
     THEN /\ res' = Json(401, "unauthorized")
          /\ NoWrite
     ELSE IF found = 0
     THEN /\ res' = ErrorHandler(AppError(400, "proposal not found"))
          /\ NoWrite
     ELSE IF projects[found].user # user
     THEN /\ res' = ErrorHandler(AppError(403, "no permission"))
          /\ NoWrite
     ELSE \E fail \in UpdateFailures :
       IF plansBody.kind = "array"
       THEN IF fail = "delete"
            THEN /\ res' = ErrorHandler(Thrown("delete failed"))
                 /\ NoWrite
            ELSE IF MapThrows(items)
            THEN /\ fail = "none"
                 /\ Commit
                 /\ plans' = DeletePlans(plans, projectId)
                 /\ res' = ErrorHandler(Thrown("TypeError"))
                 /\ UNCHANGED <<projects, nextPlanId>>
            ELSE IF fail = "insert"
            THEN /\ Commit
                 /\ plans' = DeletePlans(plans, projectId)
                 /\ res' = ErrorHandler(Thrown("insert failed"))
                 /\ UNCHANGED <<projects, nextPlanId>>
            ELSE /\ Commit
                 /\ nextPlanId + Len(items) - 1 <= MaxPlanRows
                 /\ plans' = InsertPlans(DeletePlans(plans, projectId),
                                         nextPlanId, projectId, NewPlans(items))
                 /\ nextPlanId' = nextPlanId + Len(items)
                 /\ IF fail = "save"
                    THEN /\ res' = ErrorHandler(Thrown("save failed"))
                         /\ UNCHANGED projects
                    ELSE /\ projects' = [projects EXCEPT ![projectId] = project]
                         /\ res' = [Json(200, "") EXCEPT !.project_id = projectId]
       ELSE /\ fail \in {"none", "save"}
            /\ IF fail = "save"
               THEN /\ res' = ErrorHandler(Thrown("save failed"))
                    /\ NoWrite
               ELSE /\ Commit
                    /\ UNCHANGED <<plans, nextPlanId>>
                    /\ projects' = [projects EXCEPT ![projectId] = project]
                    /\ res' = [Json(200, "") EXCEPT !.project_id = projectId]

\* the response is sent; the request's context is gone
Reply ==
  /\ req # NoReq
  /\ inflight = <<>>
  /\ req' = NoReq
  /\ res' = NoRes
  /\ UNCHANGED <<store, writes, inflight>>

-----------------------------------------------------------------------------

Init ==
  /\ projects = <<>>
  /\ plans = {}
  /\ nextPlanId = 1
  /\ req = NoReq
  /\ res = NoRes
  /\ writes = 0
  /\ inflight = <<>>

Next ==
  \/ \E token \in Tokens, body \in CreateBodies : createProject(token, body)
  \/ \E token \in Tokens, param \in Params, plansBody \in CreatePlanBodies :
       createProjectPlan(token, param, plansBody)
  \/ \E param \in Params : getProject(param)
  \/ \E token \in Tokens, param \in Params, b \in UpdateBodies :
       updateProject(token, param, b[1], b[2])
  \/ Reply

Spec == Init /\ [][Next]_vars

-----------------------------------------------------------------------------
(* Properties of the handlers run one request at a time (Spec) *)

\* the registered user a request is made by, "" for an unauthenticated one
Caller(request) ==
  IF request.token.kind = "valid" /\ request.token.id \in Users
  THEN request.token.id ELSE ""

\* this step is the handling of a request of the given operation
Handles(op) == req = NoReq /\ req'.op = op

\* C1: an existing project's fields and plans are changed only by requests
\* made by the user recorded as its owner.
C1_OnlyOwnerMutates ==
  [][\A p \in 1..Len(projects) :
       (projects'[p] # projects[p] \/ PlansOf(plans', p) # PlansOf(plans, p))
         => Caller(req') = projects[p].user]_vars

\* C2: updateProject for an existing project by an authenticated user who is
\* not its owner is answered 403 and changes nothing.
C2_NonOwnerUpdateIs403 ==
  [][(/\ Handles("updateProject")
      /\ ProjectExists(projects, ParseInt(req'.param))
      /\ Caller(req') # ""
      /\ Caller(req') # projects[ParseInt(req'.param)].user)
       => (res'.status = 403 /\ projects' = projects /\ plans' = plans)]_vars

FalsyValues == {Undef, Null, NaN, Num(0), Str("")}

\* the row the claim expects for one element of the plans array
ExpectedRow(plan) ==
  [k \in PlanFields |->
     CASE k = "amount" -> Number(plan.v["amount"])
       [] k = "quantity" -> IF plan.v["quantity"] \in FalsyValues
                            THEN Num(0) ELSE Number(plan.v["quantity"])
       [] OTHER -> plan.v[k]]

C4_PartialUpdate ==
  [][(Handles("updateProject") /\ res'.status = 200)
       => LET pid == ParseInt(req'.param) IN
          /\ Caller(req') = projects[pid].user
          /\ Len(projects') = Len(projects)
          /\ \A p \in 1..Len(projects) : p # pid => projects'[p] = projects[p]
          /\ projects'[pid].user = projects[pid].user
          /\ projects'[pid].category = projects[pid].category
          /\ \A k \in ScalarFields :
               req'.body[k] = Undef
                 => projects'[pid].cols[k] = projects[pid].cols[k]
          /\ (req'.plans.kind # "array" => plans' = plans)]_vars

\* C4 witness: an update carrying faq and category_id only went through
C4_Witness ==
  /\ req.op = "updateProject"
  /\ res.status = 200
  /\ req.body["faq"] = Null
  /\ req.body["category_id"] = Num(9)
  /\ plans # {}
  /\ LET project == projects[ParseInt(req.param)] IN
       /\ project.cols["faq"] = Null
       /\ project.cols["title"] = Str("a")
       /\ project.category = 1

AbsentFields(body) == {k \in BodyKeys : body[k] = Undef}

SeqToSet(q) == {q[i] : i \in 1..Len(q)}

\* C5: createProject answers 400 (missing fields) exactly when a required
\* field is absent from the body, lists exactly the absent fields and inserts
\* nothing; with all ten present and a valid token, user and category it
\* inserts one row and answers 200 with its id (unless the store rejects the
\* insert).
C5_MissingFieldsExactly ==
  [][Handles("createProject")
       => LET absent == AbsentFields(req'.body) IN
          /\ (absent # {}) <=> (res'.status = 400
                                  /\ res'.message = "missing required fields")
          /\ absent # {} => (SeqToSet(res'.missing) = absent
                               /\ projects' = projects)
          /\ (/\ absent = {}
              /\ Caller(req') # ""
              /\ FindCategory(req'.body["category_id"]) # 0
              /\ res'.message # "DBFAIL")
               => (/\ Len(projects') = Len(projects) + 1
                   /\ res'.status = 200
                   /\ res'.project_id = Len(projects'))]_vars

BadToken(token) == token.kind \in {"none", "malformed", "expired"}

\* C6: on the auth-gated project routes a request whose token is missing,
\* malformed or expired is answered 401 whatever its body, without effect.
C6_BadTokenIs401 ==
  [][(/\ req = NoReq
      /\ req'.op \in {"createProject", "updateProject"}
      /\ BadToken(req'.token))
       => (res'.status = 401 /\ projects' = projects /\ plans' = plans)]_vars

\* C7: getProject answers 404 without data for an id that has no project;
\* for an existing project it answers 200 with exactly that project's plans
\* in ascending plan_id order, and it changes nothing in the store.
C7_GetProjectSorted ==
  [][Handles("getProject")
       => LET pid == ParseInt(req'.param)
              own == PlansOf(plans, pid)
          IN /\ projects' = projects
             /\ plans' = plans
             /\ IF ~ProjectExists(projects, pid)
                THEN /\ res'.status = 404
                     /\ res'.data = NoData
                     /\ res'.plans = <<>>
                ELSE /\ res'.status = 200
                     /\ Len(res'.plans) = Cardinality(own)
                     /\ \E f \in Orderings(own) :
                          /\ \A i, j \in 1..Cardinality(own) :
                               i < j => f[i].plan_id < f[j].plan_id
                          /\ \A i \in 1..Cardinality(own) :
                               res'.plans[i] = f[i].v]_vars

\* C7 witness: a project whose plans came from a replacement and a later
\* createProjectPlan is read back with all three plans
C7_Witness ==
  /\ req.op = "getProject"
  /\ res.status = 200
  /\ Len(res.plans) = 3
  /\ res.plans[1]["plan_name"] = Str("C")
  /\ res.plans[2]["plan_name"] = Str("A")
  /\ res.plans[3]["plan_name"] = Str("B")
  /\ Cardinality(plans) = 3

\* C8: when the insert of the new plans fails after the delete, the request
\* ends in an error response, the project is left with no plans (the old
\* ones are not restored) and the scalar changes of the request are not
\* stored.
C8_FailedInsertLeavesNoPlans ==
  [][(Handles("updateProject") /\ res'.message = "insert failed")
       => LET pid == ParseInt(req'.param) IN
          /\ res'.status >= 400
          /\ PlansOf(plans', pid) = {}
          /\ plans' = plans \ PlansOf(plans, pid)
          /\ projects' = projects]_vars

\* C8 witness: the only project had a plan and lost it to a failed
\* replacement that also carried a new summary
C8_Witness ==
  /\ req.op = "updateProject"
  /\ res.message = "insert failed"
  /\ res.status = 500
  /\ req.body["summary"] = Str("b")
  /\ Len(projects) = 1
  /\ projects[1].cols["summary"] = Str("a")
  /\ nextPlanId > 1
  /\ plans = {}

\* C9: every plan belongs to an existing project and every project to an
\* existing category and user; createProjectPlan for an id without project
\* answers 404 and inserts nothing; createProject that reaches the lookups
\* (complete body, verified token) with an unknown user or category answers
\* 400 and inserts nothing.
C9_ReferencesValid ==
  [][/\ \A r \in plans' : ProjectExists(projects', r.project)
     /\ \A p \in 1..Len(projects') :
          projects'[p].category \in Categories /\ projects'[p].user \in Users
     /\ (Handles("createProjectPlan")
           /\ ~ProjectExists(projects, ParseInt(req'.param)))
          => (res'.status = 404 /\ plans' = plans)
     /\ (/\ Handles("createProject")
         /\ checkMissingProjectFields(req'.body) = <<>>
         /\ JwtVerifies(req'.token)
         /\ (req'.token.id \notin Users
               \/ FindCategory(req'.body["category_id"]) = 0))
          => (res'.status = 400 /\ projects' = projects)]_vars

-----------------------------------------------------------------------------
(* Concurrent requests.  A handler gives up control at every await of a     *)
(* persistence call, so the calls of the requests in flight interleave;     *)
(* what runs between two awaits is one step.  Here every persistence call   *)
(* succeeds.                                                                *)

Context(op, token, param, body, plansBody, pc) ==
  [op |-> op, token |-> token, param |-> param, body |-> body,
   plans |-> plansBody, pc |-> pc, loaded |-> <<>>, status |-> 0]

OwnerToken == [kind |-> "valid", id |-> "u1"]

UpdateContext(items) ==
  Context("updateProject", OwnerToken, <<"1">>, EmptyBody, PlanArray(items),
          "findOne")

CreatePlanContext(p) ==
  Context("createProjectPlan", NoToken, <<"1">>, EmptyBody, PlanObject(p),
          "findOne")

\* the plans arrays of the two concurrent updateProject requests
ConcurrentArrays == { <<>>, <<pB>>, <<pC, pA>> }

\* two updateProject requests of the owner for project 1, with or without a
\* createProjectPlan for it
Workloads ==
  { <<UpdateContext(P1), UpdateContext(P2)>> :
      P1 \in ConcurrentArrays, P2 \in ConcurrentArrays \ {<<>>} }
  \cup
  { <<UpdateContext(P1), UpdateContext(P2), CreatePlanContext(pA)>> :
      P1 \in ConcurrentArrays \ {<<>>}, P2 \in {<<pC, pA>>} }

\* updateProject up to the await of planRepo.delete or projectRepo.save
UpdFindOne(i) ==
  LET c == inflight[i]
      projectId == ParseInt(c.param)
      user == auth(c.token)
      found == FindOwnedProject(projects, projectId, user)
  IN
  /\ c.op = "updateProject" /\ c.pc = "findOne"
  /\ inflight' =
       [inflight EXCEPT ![i] =
          IF user = "" THEN [c EXCEPT !.pc = "done", !.status = 401]
          ELSE IF found = 0 THEN [c EXCEPT !.pc = "done", !.status = 400]
          ELSE IF projects[found].user # user
          THEN [c EXCEPT !.pc = "done", !.status = 403]
          ELSE [c EXCEPT !.loaded = <<SetFields(projects[projectId], c.body)>>,
                         !.pc = IF c.plans.kind = "array"
                                THEN "delete" ELSE "save"]]
  /\ UNCHANGED <<store, writes, req, res>>

\* planRepo.delete, then the map up to the await of planRepo.save
UpdDelete(i) ==
  LET c == inflight[i] IN
  /\ c.op = "updateProject" /\ c.pc = "delete"
  /\ plans' = DeletePlans(plans, ParseInt(c.param))
  /\ inflight' =
       [inflight EXCEPT ![i] =
          IF MapThrows(c.plans.items)
          THEN [c EXCEPT !.pc = "done", !.status = 500]
          ELSE [c EXCEPT !.pc = "insert"]]
  /\ UNCHANGED <<projects, nextPlanId, writes, req, res>>

\* planRepo.save(newPlans) up to the await of projectRepo.save
UpdInsert(i) ==
  LET c == inflight[i] IN
  /\ c.op = "updateProject" /\ c.pc = "insert"
  /\ plans' = InsertPlans(plans, nextPlanId, ParseInt(c.param),
                          NewPlans(c.plans.items))
  /\ nextPlanId' = nextPlanId + Len(c.plans.items)
  /\ inflight' = [inflight EXCEPT ![i] = [c EXCEPT !.pc = "save"]]
  /\ UNCHANGED <<projects, writes, req, res>>

\* projectRepo.save(project) and the 200 response
UpdSave(i) ==
  LET c == inflight[i] IN
  /\ c.op = "updateProject" /\ c.pc = "save"
  /\ projects' = [projects EXCEPT ![ParseInt(c.param)] = c.loaded[1]]
  /\ inflight' =
       [inflight EXCEPT ![i] = [c EXCEPT !.pc = "done", !.status = 200]]
  /\ UNCHANGED <<plans, nextPlanId, writes, req, res>>

\* createProjectPlan up to the await of planRepo.save
CppFindOne(i) ==
  LET c == inflight[i] IN
  /\ c.op = "createProjectPlan" /\ c.pc = "findOne"
  /\ inflight' =
       [inflight EXCEPT ![i] =
          IF PlanDestructureThrows(c.plans)
          THEN [c EXCEPT !.pc = "done", !.status = 500]
          ELSE IF ~ProjectExists(projects, ParseInt(c.param))
          THEN [c EXCEPT !.pc = "done", !.status = 404]
          ELSE [c EXCEPT !.pc = "save"]]
  /\ UNCHANGED <<store, writes, req, res>>

\* planRepo.save(newPlan) and the 201 response
CppSave(i) ==
  LET c == inflight[i] IN
  /\ c.op = "createProjectPlan" /\ c.pc = "save"
  /\ plans' = InsertPlans(plans, nextPlanId, ParseInt(c.param),
                          <<PlanFromBody(c.plans)>>)
  /\ nextPlanId' = nextPlanId + 1
  /\ inflight' =
       [inflight EXCEPT ![i] = [c EXCEPT !.pc = "done", !.status = 201]]
  /\ UNCHANGED <<projects, writes, req, res>>

\* the store after createProject by u1 and createProjectPlan of pB for it,
\* with the concurrent requests accepted
InitConc ==
  /\ projects = InsertProject(<<>>, "u1", 1, BaseBody)
  /\ plans = InsertPlans({}, 1, 1, <<PlanFromBody(PlanObject(pB))>>)
  /\ nextPlanId = 2
  /\ writes = 2
  /\ req = NoReq
  /\ res = NoRes
  /\ inflight \in Workloads

NextConc ==
  \/ \E i \in 1..Len(inflight) : UpdFindOne(i)
  \/ \E i \in 1..Len(inflight) : UpdDelete(i)
  \/ \E i \in 1..Len(inflight) : UpdInsert(i)
  \/ \E i \in 1..Len(inflight) : UpdSave(i)
  \/ \E i \in 1..Len(inflight) : CppFindOne(i)
  \/ \E i \in 1..Len(inflight) : CppSave(i)

SpecConc == InitConc /\ [][NextConc]_vars

\* the contents of the plans of a project, ids aside
PlanContents(rows, projectId) == {r.v : r \in PlansOf(rows, projectId)}

\* the plan contents of project 1 after request c has run alone
AfterAlone(contents, c) ==
  IF c.op = "updateProject"
  THEN SeqToSet(NewPlans(c.plans.items))
  ELSE contents \cup {PlanFromBody(c.plans)}

RECURSIVE AfterSerial(_, _, _)
AfterSerial(contents, order, k) ==
  IF k > Len(order) THEN contents
  ELSE AfterSerial(AfterAlone(contents, inflight[order[k]]), order, k + 1)

\* the plan contents project 1 can have when the requests run one by one
SerialOutcomes ==
  { AfterSerial(PlanContents(InsertPlans({}, 1, 1, <<PlanFromBody(PlanObject(pB))>>), 1), order, 1) :
      order \in Orderings(1..Len(inflight)) }

AllDone ==
  /\ inflight # <<>>
  /\ \A i \in 1..Len(inflight) : inflight[i].pc = "done"

\* C10: once concurrent successful updateProject requests (and a
\* createProjectPlan) for one project have completed, its plans are those of
\* some serial order of the requests.
C10_PlansSerializable ==
  (AllDone /\ \A i \in 1..Len(inflight) : inflight[i].status \in {200, 201})
    => PlanContents(plans, 1) \in SerialOutcomes

====
